---- MODULE Spec2Model ----
(***************************************************************************)
(* Model of data/proc_stop_words.py (hausdorff/slda).                      *)
(*                                                                         *)
(*   def proc_mysql_stop_words (rname, wname):                             *)
(*       with open(rname) as f:                                            *)
(*           raw = f.read().strip().split()                                *)
(*       with open(wname, 'wb') as w:                                      *)
(*           for word in raw:                                              *)
(*               w.write("%s\n" % word)                                    *)
(*                                                                         *)
(* The file system is a map from paths to files.  A text is a sequence of  *)
(* one-character strings.  An invocation is a caller p with its arguments  *)
(* rname[p], wname[p] and its position pc[p] in the function body.  The    *)
(* file object returned by open(wname, 'wb') is buffered (the default      *)
(* buffering of open): w.write appends to the handle's buffer, and the     *)
(* buffer reaches the file at the handle's offset when the runtime flushes *)
(* it, at the latest when the with block closes the handle.  Every open,   *)
(* read, write and close can raise IOError; nothing in the function        *)
(* catches it, and the with blocks close the handles on the way out.       *)
(* The script is Python 2 (with_statement from __future__, a str written   *)
(* to a file opened 'wb'); under Python 3 the first w.write raises, which  *)
(* is the WriteFail step with nothing flushed.                             *)
(*                                                                         *)
(* Spec  : one caller, invoking the function MaxRuns times in sequence.    *)
(* SpecC : two callers, each invoking the function once, interleaved.      *)
(***************************************************************************)
EXTENDS Integers, Sequences, FiniteSets, TLC

VARIABLES fs, rname, wname, pc, err, srcOpen, dstOpen, srcText, raw, i,
          buf, pos, fs0, budget, hist

vars == <<fs, rname, wname, pc, err, srcOpen, dstOpen, srcText, raw, i,
          buf, pos, fs0, budget, hist>>

----------------------------------------------------------------------------
(* Bounds *)

\* longest initial content of a file a caller of Spec reads
MaxLen == 4
\* longest initial content of a file a caller of SpecC reads
MaxLenC == 1
\* number of invocations the single caller of Spec makes in sequence
MaxRuns == 2

----------------------------------------------------------------------------
(* Characters, texts, files *)

SP == " "
NL == "\n"
\* the byte a write past the end of a file leaves in the gap
NUL == "NUL"

\* the characters str.strip() and str.split() treat as separators
Whitespace == {" ", "\t", "\n", "\r", "\f", "VT"}

Alphabet == {"a", SP, NL}

Texts(n) == UNION {[1..k -> Alphabet] : k \in 0..n}

Paths == {"A", "B"}

Procs == {1, 2}

Absent == [exists |-> FALSE, data |-> <<>>]

File(t) == [exists |-> TRUE, data |-> t]

Files(n) == {Absent} \cup {File(t) : t \in Texts(n)}

\* what a file no caller reads may hold at the start: nothing, or a line left
\* by some earlier program
Stale == {Absent, File(<<>>), File(<<"a", NL>>)}

\* a separator test that knows the blank only
IsSpace_blank(c) == c = SP

IsSpace(c) == c \in Whitespace

----------------------------------------------------------------------------
(* f.read().strip().split()  -- line 14 *)

\* index of the first non-whitespace character at or after k, Len(s)+1 if none
RECURSIVE SkipSpace(_, _)
SkipSpace(s, k) ==
    IF k > Len(s) THEN Len(s) + 1
    ELSE IF IsSpace(s[k]) THEN SkipSpace(s, k + 1)
    ELSE k

\* index of the first whitespace character at or after k, Len(s)+1 if none
RECURSIVE SkipWord(_, _)
SkipWord(s, k) ==
    IF k > Len(s) THEN Len(s) + 1
    ELSE IF IsSpace(s[k]) THEN k
    ELSE SkipWord(s, k + 1)

\* index of the last non-whitespace character at or before k, 0 if none
RECURSIVE SkipSpaceBack(_, _)
SkipSpaceBack(s, k) ==
    IF k < 1 THEN 0
    ELSE IF IsSpace(s[k]) THEN SkipSpaceBack(s, k - 1)
    ELSE k

\* str.strip(): drop leading and trailing whitespace
strip(s) ==
    LET lo == SkipSpace(s, 1)
        hi == SkipSpaceBack(s, Len(s))
    IN  IF lo > hi THEN <<>> ELSE SubSeq(s, lo, hi)

\* str.split() with no separator: scan, skipping runs of whitespace and
\* collecting each run of other characters
RECURSIVE splitFrom(_, _, _)
splitFrom(s, k, acc) ==
    LET j == SkipSpace(s, k)
    IN  IF j > Len(s) THEN acc
        ELSE LET e == SkipWord(s, j)
             IN  splitFrom(s, e, Append(acc, SubSeq(s, j, e - 1)))

\* a split that cuts at every single separator character, keeping the empty
\* pieces (what str.split(" ") does)
RECURSIVE splitEachFrom(_, _, _)
splitEachFrom(s, k, acc) ==
    LET e == SkipWord(s, k)
    IN  IF e > Len(s) THEN Append(acc, SubSeq(s, k, Len(s)))
        ELSE splitEachFrom(s, e + 1, Append(acc, SubSeq(s, k, e - 1)))

split_each(s) == splitEachFrom(s, 1, <<>>)

split(s) == splitFrom(s, 1, <<>>)

----------------------------------------------------------------------------
(* open(wname, 'wb') and w.write("%s\n" % word)  -- lines 15-17 *)

\* "%s\n" % word
Line_bare(word) == word

Line(word) == word \o <<NL>>

\* what mode 'wb' leaves of the previous content
Truncated_keep(old) == old

Truncated(old) == <<>>

\* the path the second with block opens
DstPath_src(p) == rname[p]

DstPath(p) == wname[p]

\* the word the loop writes in its k-th iteration
WordAt_reversed(p, k) == raw[p][Len(raw[p]) + 1 - k]

WordAt(p, k) == raw[p][k]

\* the state of a handle when its with block is left
Released_leak(open) == open

Released(open) == FALSE

\* the source handle while the second with block runs: the first block has
\* ended
SrcAfterRead_nested(open) == open

SrcAfterRead(open) == Released(open)

\* the content of a file after `bytes` are written at offset `at`
WriteAt(data, at, bytes) ==
    IF Len(bytes) = 0 THEN data
    ELSE LET n == IF Len(data) > at + Len(bytes) THEN Len(data)
                  ELSE at + Len(bytes)
         IN  [k \in 1..n |->
                 IF k > at /\ k <= at + Len(bytes) THEN bytes[k - at]
                 ELSE IF k <= Len(data) THEN data[k]
                 ELSE NUL]

\* the file system after caller p's handle flushes the first n bytes of b
Flushed(p, b, n) ==
    [fs EXCEPT ![DstPath(p)] =
        File(WriteAt(fs[DstPath(p)].data, pos[p], SubSeq(b, 1, n)))]

Rest(b, n) == SubSeq(b, n + 1, Len(b))

----------------------------------------------------------------------------
(* Initial states *)

InitCommon ==
    /\ pc = [p \in Procs |-> "idle"]
    /\ err = [p \in Procs |-> "none"]
    /\ srcOpen = [p \in Procs |-> FALSE]
    /\ dstOpen = [p \in Procs |-> FALSE]
    /\ srcText = [p \in Procs |-> <<>>]
    /\ raw = [p \in Procs |-> <<>>]
    /\ i = [p \in Procs |-> 0]
    /\ buf = [p \in Procs |-> <<>>]
    /\ pos = [p \in Procs |-> 0]
    /\ fs0 = [p \in Procs |-> fs]
    /\ hist = <<>>

\* one caller: the __main__ block, or any single call of the function
Init ==
    /\ budget = [p \in Procs |-> IF p = 1 THEN MaxRuns ELSE 0]
    /\ \E r \in Paths, w \in Paths :
        /\ rname = [p \in Procs |-> IF p = 1 THEN r ELSE "A"]
        /\ wname = [p \in Procs |-> IF p = 1 THEN w ELSE "A"]
    /\ fs \in [Paths -> Files(MaxLen) \cup Stale]
    /\ \A f \in Paths : fs[f] \in (IF f = rname[1] THEN Files(MaxLen) ELSE Stale)
    /\ InitCommon

\* two callers at the same time
InitC ==
    /\ budget = [p \in Procs |-> 1]
    /\ rname \in [Procs -> Paths]
    /\ wname \in [Procs -> Paths]
    /\ fs \in [Paths -> Files(MaxLenC) \cup Stale]
    /\ \A f \in Paths :
        fs[f] \in (IF \E p \in Procs : f = rname[p] THEN Files(MaxLenC) ELSE Stale)
    /\ InitCommon

----------------------------------------------------------------------------
(* The steps of proc_mysql_stop_words *)

CanCall(p) == pc[p] \in {"idle", "done", "failed"} /\ budget[p] > 0

\* open(rname) is mode 'r': it opens an existing file and creates none
CanOpenForRead_any(p) == TRUE

CanOpenForRead(p) == fs[rname[p]].exists

\* line 13: open(rname) succeeds
OpenSrcOk(p) ==
    /\ CanCall(p)
    /\ CanOpenForRead(p)
    /\ budget' = [budget EXCEPT ![p] = @ - 1]
    /\ fs0' = [fs0 EXCEPT ![p] = fs]
    /\ pc' = [pc EXCEPT ![p] = "src_open"]
    /\ err' = [err EXCEPT ![p] = "none"]
    /\ srcOpen' = [srcOpen EXCEPT ![p] = TRUE]
    /\ srcText' = [srcText EXCEPT ![p] = <<>>]
    /\ raw' = [raw EXCEPT ![p] = <<>>]
    /\ i' = [i EXCEPT ![p] = 0]
    /\ buf' = [buf EXCEPT ![p] = <<>>]
    /\ pos' = [pos EXCEPT ![p] = 0]
    /\ UNCHANGED <<fs, rname, wname, dstOpen, hist>>

\* line 13: open(rname) raises IOError (no such file, or not readable)
OpenSrcFail(p) ==
    /\ CanCall(p)
    /\ budget' = [budget EXCEPT ![p] = @ - 1]
    /\ fs0' = [fs0 EXCEPT ![p] = fs]
    /\ pc' = [pc EXCEPT ![p] = "failed"]
    /\ err' = [err EXCEPT ![p] = "src_open"]
    /\ srcText' = [srcText EXCEPT ![p] = <<>>]
    /\ raw' = [raw EXCEPT ![p] = <<>>]
    /\ i' = [i EXCEPT ![p] = 0]
    /\ buf' = [buf EXCEPT ![p] = <<>>]
    /\ pos' = [pos EXCEPT ![p] = 0]
    /\ UNCHANGED <<fs, rname, wname, srcOpen, dstOpen, hist>>

\* line 14: f.read().strip().split(), then the with block closes f
ReadOk(p) ==
    /\ pc[p] = "src_open"
    /\ srcText' = [srcText EXCEPT ![p] = fs[rname[p]].data]
    /\ raw' = [raw EXCEPT ![p] = split(strip(fs[rname[p]].data))]
    /\ srcOpen' = [srcOpen EXCEPT ![p] = SrcAfterRead(@)]
    /\ pc' = [pc EXCEPT ![p] = "tokenized"]
    /\ UNCHANGED <<fs, rname, wname, err, dstOpen, i, buf, pos, fs0, budget, hist>>

\* line 14: f.read() raises IOError; the with block closes f
ReadFail(p) ==
    /\ pc[p] = "src_open"
    /\ srcOpen' = [srcOpen EXCEPT ![p] = Released(@)]
    /\ pc' = [pc EXCEPT ![p] = "failed"]
    /\ err' = [err EXCEPT ![p] = "read"]
    /\ UNCHANGED <<fs, rname, wname, dstOpen, srcText, raw, i, buf, pos, fs0,
                   budget, hist>>

\* line 15: open(wname, 'wb') creates or truncates the file; the handle's
\* offset is the end of the truncated file
OpenDstOk(p) ==
    /\ pc[p] = "tokenized"
    /\ fs' = [fs EXCEPT ![DstPath(p)] = File(Truncated(@.data))]
    /\ pos' = [pos EXCEPT ![p] = Len(fs'[DstPath(p)].data)]
    /\ buf' = [buf EXCEPT ![p] = <<>>]
    /\ dstOpen' = [dstOpen EXCEPT ![p] = TRUE]
    /\ pc' = [pc EXCEPT ![p] = "writing"]
    /\ UNCHANGED <<rname, wname, err, srcOpen, srcText, raw, i, fs0, budget, hist>>

\* line 15: open(wname, 'wb') raises IOError
OpenDstFail(p) ==
    /\ pc[p] = "tokenized"
    /\ pc' = [pc EXCEPT ![p] = "failed"]
    /\ err' = [err EXCEPT ![p] = "dst_open"]
    /\ UNCHANGED <<fs, rname, wname, srcOpen, dstOpen, srcText, raw, i, buf, pos,
                   fs0, budget, hist>>

\* lines 16-17: one iteration; the runtime may flush part of the buffer
WriteOk(p) ==
    /\ pc[p] = "writing"
    /\ i[p] < Len(raw[p])
    /\ LET b == buf[p] \o Line(WordAt(p, i[p] + 1))
       IN  \E n \in 0..Len(b) :
            /\ fs' = Flushed(p, b, n)
            /\ pos' = [pos EXCEPT ![p] = @ + n]
            /\ buf' = [buf EXCEPT ![p] = Rest(b, n)]
    /\ i' = [i EXCEPT ![p] = @ + 1]
    /\ UNCHANGED <<rname, wname, pc, err, srcOpen, dstOpen, srcText, raw, fs0,
                   budget, hist>>

\* line 17: w.write raises IOError after part of the buffer reached the file;
\* the with block closes w
WriteFail(p) ==
    /\ pc[p] = "writing"
    /\ i[p] < Len(raw[p])
    /\ LET b == buf[p] \o Line(WordAt(p, i[p] + 1))
       IN  \E n \in 0..Len(b) :
            /\ fs' = Flushed(p, b, n)
            /\ pos' = [pos EXCEPT ![p] = @ + n]
            /\ buf' = [buf EXCEPT ![p] = Rest(b, n)]
    /\ dstOpen' = [dstOpen EXCEPT ![p] = Released(@)]
    /\ pc' = [pc EXCEPT ![p] = "failed"]
    /\ err' = [err EXCEPT ![p] = "write"]
    /\ UNCHANGED <<rname, wname, srcOpen, srcText, raw, i, fs0, budget, hist>>

\* the end of the second with block: the loop is over, w.close() flushes
\* what is left of the buffer
CloseOk(p) ==
    /\ pc[p] = "writing"
    /\ i[p] = Len(raw[p])
    /\ fs' = Flushed(p, buf[p], Len(buf[p]))
    /\ pos' = [pos EXCEPT ![p] = @ + Len(buf[p])]
    /\ buf' = [buf EXCEPT ![p] = <<>>]
    /\ dstOpen' = [dstOpen EXCEPT ![p] = Released(@)]
    /\ pc' = [pc EXCEPT ![p] = "done"]
    /\ hist' = Append(hist, [caller |-> p, src |-> srcText[p],
                             out |-> fs'[DstPath(p)].data])
    /\ UNCHANGED <<rname, wname, err, srcOpen, srcText, raw, i, fs0, budget>>

\* the end of the second with block: the flush of w.close() raises IOError
CloseFail(p) ==
    /\ pc[p] = "writing"
    /\ i[p] = Len(raw[p])
    /\ \E n \in 0..Len(buf[p]) :
        /\ fs' = Flushed(p, buf[p], n)
        /\ pos' = [pos EXCEPT ![p] = @ + n]
        /\ buf' = [buf EXCEPT ![p] = Rest(buf[p], n)]
    /\ dstOpen' = [dstOpen EXCEPT ![p] = Released(@)]
    /\ pc' = [pc EXCEPT ![p] = "failed"]
    /\ err' = [err EXCEPT ![p] = "close"]
    /\ UNCHANGED <<rname, wname, srcOpen, srcText, raw, i, fs0, budget, hist>>

Step(p) ==
    \/ OpenSrcOk(p)
    \/ OpenSrcFail(p)
    \/ ReadOk(p)
    \/ ReadFail(p)
    \/ OpenDstOk(p)
    \/ OpenDstFail(p)
    \/ WriteOk(p)
    \/ WriteFail(p)
    \/ CloseOk(p)
    \/ CloseFail(p)

Next == \E p \in Procs : Step(p)

Spec == Init /\ [][Next]_vars

SpecC == InitC /\ [][Next]_vars

----------------------------------------------------------------------------
(* The vocabulary of the properties *)

IsWs(c) == c \in Whitespace

\* a token starts at k: a character that is no whitespace, with whitespace or
\* the start of the text before it
IsTokenStart(T, k) == ~IsWs(T[k]) /\ (k = 1 \/ IsWs(T[k - 1]))

\* the last character of the maximal whitespace-free run that starts at k
TokenEnd(T, k) ==
    CHOOSE e \in k..Len(T) :
        /\ \A j \in k..e : ~IsWs(T[j])
        /\ e = Len(T) \/ IsWs(T[e + 1])

Min(S) == CHOOSE x \in S : \A y \in S : x <= y

RECURSIVE RunsAt(_, _)
RunsAt(T, S) ==
    IF S = {} THEN <<>>
    ELSE <<SubSeq(T, Min(S), TokenEnd(T, Min(S)))>> \o RunsAt(T, S \ {Min(S)})

\* the tokens of T: its maximal whitespace-free runs, left to right
Tokens(T) == RunsAt(T, {k \in 1..Len(T) : IsTokenStart(T, k)})

RECURSIVE Joined(_)
Joined(toks) ==
    IF toks = <<>> THEN <<>> ELSE Head(toks) \o <<NL>> \o Joined(Tail(toks))

\* the destination text of source text T
ExpectedText(T) == Joined(Tokens(T))

\* the lines of a file content: the pieces its newlines end, and the piece
\* after the last newline when there is one
RECURSIVE LinesFrom(_, _, _)
LinesFrom(d, k, cur) ==
    IF k > Len(d) THEN (IF cur = <<>> THEN <<>> ELSE <<cur>>)
    ELSE IF d[k] = NL THEN <<cur>> \o LinesFrom(d, k + 1, <<>>)
    ELSE LinesFrom(d, k + 1, Append(cur, d[k]))

LinesOf(d) == LinesFrom(d, 1, <<>>)

IsPrefix(s, t) == Len(s) <= Len(t) /\ SubSeq(t, 1, Len(s)) = s

AllWs(T) == \A k \in 1..Len(T) : IsWs(T[k])

Clean(tok) == tok # <<>> /\ \A k \in 1..Len(tok) : ~IsWs(tok[k])

\* the source text as it was when caller p made its current call
SourceAtCall(p) == fs0[p][rname[p]].data

\* the destination as it was when caller p made its current call
DestAtCall(p) == fs0[p][wname[p]]

Dest(p) == fs[wname[p]]

----------------------------------------------------------------------------
(* C1: after a successful run the destination holds exactly the tokens of  *)
(* the source text, each followed by one newline, in their order: its      *)
(* lines are the token sequence.                                           *)
C1_OutputIsTokenLines ==
    pc[1] = "done" =>
        /\ Dest(1) = File(ExpectedText(SourceAtCall(1)))
        /\ LinesOf(Dest(1).data) = Tokens(SourceAtCall(1))

\* a run that wrote two different tokens, the longer one first
C1_Witness ==
    /\ pc[1] = "done"
    /\ Len(Tokens(SourceAtCall(1))) = 2
    /\ Len(Tokens(SourceAtCall(1))[1]) > Len(Tokens(SourceAtCall(1))[2])
    /\ Dest(1).data = ExpectedText(SourceAtCall(1))

(* C2: no token is empty or holds whitespace, and while the loop writes    *)
(* and after it the destination has no empty line and no line with         *)
(* whitespace in it.                                                       *)
C2_NoEmptyOrSpacedLine ==
    /\ \A k \in 1..Len(raw[1]) : Clean(raw[1][k])
    /\ pc[1] \in {"writing", "done"} =>
           \A k \in 1..Len(LinesOf(Dest(1).data)) : Clean(LinesOf(Dest(1).data)[k])

\* a finished run on a text with a blank and a newline between two tokens
C2_Witness ==
    /\ pc[1] = "done"
    /\ SourceAtCall(1) = <<"a", SP, NL, "a">>
    /\ Len(LinesOf(Dest(1).data)) = 2

(* C3: two successful runs of the caller on the same source text leave the *)
(* same destination content, whatever the destination held before each.    *)
C3_RerunIdentical ==
    \A m \in DOMAIN hist : \A n \in DOMAIN hist :
        hist[m].src = hist[n].src => hist[m].out = hist[n].out

\* the second run found the output of the first and left the same again
C3_Witness ==
    /\ Len(hist) = 2
    /\ pc[1] = "done"
    /\ hist[1].src = hist[2].src
    /\ hist[2].out # <<>>
    /\ DestAtCall(1) = File(hist[1].out)

(* C4: when the source is missing or cannot be read the run fails with an  *)
(* input error and the destination is as it was: absent if it was absent,  *)
(* with its content if it existed.                                         *)
C4_MissingSourceFailsClean ==
    /\ (pc[1] # "idle" /\ ~fs0[1][rname[1]].exists) =>
           pc[1] = "failed" /\ err[1] = "src_open"
    /\ (pc[1] = "failed" /\ err[1] \in {"src_open", "read"}) => fs = fs0[1]

\* the source is missing and the destination holds a line
C4_Witness ==
    /\ pc[1] = "failed"
    /\ err[1] = "src_open"
    /\ ~fs[rname[1]].exists
    /\ Dest(1) = File(<<"a", NL>>)

(* C5 as stated: a run leaves the file at the source path as it was, for   *)
(* every pair of paths.                                                    *)
C5_SourceNeverModified ==
    pc[1] # "idle" => fs[rname[1]] = fs0[1][rname[1]]

(* C5: a run leaves the file at the source path as it was when the source  *)
(* and the destination are different files.                                *)
C5_SourceKeptWhenPathsDiffer ==
    (pc[1] # "idle" /\ rname[1] # wname[1]) => fs[rname[1]] = fs0[1][rname[1]]

\* a run between two files that wrote its output
C5_Witness ==
    /\ pc[1] = "done"
    /\ rname[1] # wname[1]
    /\ Dest(1).data # <<>>
    /\ Dest(1).data # SourceAtCall(1)

(* C6: for a source text that is empty or all whitespace the token         *)
(* sequence is empty, the loop writes nothing, and the run ends with the   *)
(* destination created or truncated to an empty file.                      *)
C6_EmptySourceEmptyOutput ==
    (pc[1] \in {"tokenized", "writing", "done"} /\ AllWs(srcText[1])) =>
        /\ raw[1] = <<>>
        /\ i[1] = 0
        /\ buf[1] = <<>>
        /\ pc[1] \in {"writing", "done"} => Dest(1) = File(<<>>)

\* a finished run over a destination that held a line, on an empty source
C6_Witness ==
    /\ pc[1] = "done"
    /\ srcText[1] = <<>>
    /\ DestAtCall(1) = File(<<"a", NL>>)
    /\ Dest(1) = File(<<>>)

\* a finished run on a source of whitespace only, converted in place
C6_WitnessBlank ==
    /\ pc[1] = "done"
    /\ srcText[1] = <<SP, NL>>
    /\ rname[1] = wname[1]

(* C7 as stated: after a failed open of the destination or a failed write  *)
(* the destination is absent, empty, or the first k whole lines of the     *)
(* expected output for some k below the number of tokens.                  *)
C7_FailedDestIsWholeLines ==
    (pc[1] = "failed" /\ err[1] \in {"dst_open", "write"}) =>
        \/ ~Dest(1).exists
        \/ Dest(1).data = <<>>
        \/ \E k \in 0..(Len(raw[1]) - 1) :
               Dest(1).data = Joined(SubSeq(raw[1], 1, k))

(* C7: a failure of the second with block ends the run with the handle     *)
(* closed; after a failed open the destination is as it was before the     *)
(* run, after a failed write or closing flush it holds a prefix, byte by   *)
(* byte, of the expected output, and a failed write leaves a token         *)
(* unwritten.                                                              *)
C7_FailedDestIsBytePrefix ==
    (pc[1] = "failed" /\ err[1] \in {"dst_open", "write", "close"}) =>
        /\ ~dstOpen[1]
        /\ err[1] = "dst_open" => Dest(1) = DestAtCall(1)
        /\ err[1] \in {"write", "close"} =>
               /\ Dest(1).exists
               /\ IsPrefix(Dest(1).data, ExpectedText(SourceAtCall(1)))
        /\ err[1] = "write" => i[1] < Len(raw[1])

\* a write failed in the second iteration with the file ending inside a line
C7_Witness ==
    /\ pc[1] = "failed"
    /\ err[1] = "write"
    /\ i[1] = 1
    /\ Dest(1).data = <<"a", NL, "a">>

C9_HandlesReleased ==
    \A p \in Procs :
        pc[p] \in {"idle", "done", "failed"} => ~srcOpen[p] /\ ~dstOpen[p]

\* a run that failed in the loop after a successful write
C9_Witness ==
    /\ pc[1] = "failed"
    /\ err[1] = "write"
    /\ i[1] = 1
    /\ ~srcOpen[1] /\ ~dstOpen[1]

(* C10: the two handles are never open together, the file system is        *)
(* untouched while the source handle is open, and every change of the      *)
(* file system happens with the source closed and the token sequence       *)
(* already fixed.                                                          *)
C10_SourceClosedBeforeDest ==
    /\ [](~(srcOpen[1] /\ dstOpen[1]))
    /\ [](srcOpen[1] => fs = fs0[1])
    /\ [][fs' # fs =>
            /\ ~srcOpen[1]
            /\ pc[1] \in {"tokenized", "writing"}
            /\ raw'[1] = raw[1]
            /\ raw[1] = Tokens(srcText[1])]_vars

\* the loop has written to the destination, the source long closed
C10_Witness ==
    /\ pc[1] = "writing"
    /\ dstOpen[1]
    /\ ~srcOpen[1]
    /\ i[1] = 2
    /\ Dest(1).data # <<>>

====
